---- MODULE Spec2Model ----
(***************************************************************************)
(* Model of the weather favourites service:                                *)
(*   weather_management/models/favourites_model.py  (FavouritesModel)      *)
(* One FavouritesModel instance, driven by sequential method calls.  The   *)
(* weather provider (requests.get) is the environment: each request is     *)
(* answered by a nondeterministically chosen status code or by a transport *)
(* failure (requests.exceptions.RequestException).                         *)
(***************************************************************************)
EXTENDS Integers, Sequences, FiniteSets, TLC

(***************************************************************************)
(* Bounds of the model.                                                    *)
(***************************************************************************)
\* successful set_favourite_location calls in one behaviour (caps `clock`)
MaxAdds == 3
\* largest `days` argument tried on get_forecast_by_favourite_location
MaxDaysArg == 11

(***************************************************************************)
(* Program constants.                                                      *)
(***************************************************************************)
\* response.status_code == 200
STATUS_OK == 200
\* days > 0 and days <= 10
DAYS_LOW == 0
DAYS_HIGH == 10

(***************************************************************************)
(* Inputs.                                                                 *)
(***************************************************************************)
\* location names; "Boston" and "boston" differ only in case
Locations == {"Boston", "boston", "New York"}

\* status codes the provider may answer with
StatusCodes == {200, 404}

\* the `current` object of a provider payload (values of the tests' fixtures,
\* temperatures in tenths of a degree)
CurrentBoston ==
    [temp_c |-> 225, feelslike_c |-> 210, humidity |-> 60, wind_kph |-> 15,
     wind_dir |-> "N", pressure_mb |-> 1012, precip_mm |-> 0, cloud |-> 20,
     condition |-> [text |-> "Clear"]]

\* one element of a provider payload's forecast.forecastday list
ForecastDay(date, rain, snow, text) ==
    [date |-> date,
     day |-> [mintemp_c |-> 100, maxtemp_c |-> 150, avgtemp_c |-> 125,
              maxwind_kph |-> 20, totalprecip_mm |-> 0, totalsnow_cm |-> 0,
              avgvis_km |-> 10, avghumidity |-> 60,
              daily_chance_of_rain |-> rain, daily_chance_of_snow |-> snow,
              condition |-> [text |-> text]]]

Day1 == ForecastDay("2024-12-09", 10, 1, "Partly Cloudy")

\* a decoded JSON payload; a key that may be absent is a sequence of length
\* 0 (absent) or 1 (present)
Body(current, forecast) == [current |-> current, forecast |-> forecast]
EmptyBody == Body(<< >>, << >>)

\* the payloads the provider may send with a response
Bodies ==
    { EmptyBody,
      Body(<<CurrentBoston>>, << >>),
      Body(<< >>, << [forecastday |-> << >>] >>),
      Body(<< >>, << [forecastday |-> <<Day1>>] >>) }

\* what requests.get does: returns a Response carrying a status code and a
\* payload, or raises requests.exceptions.RequestException
ProviderAnswers ==
    [kind : {"response"}, status : {200}, body : Bodies]
        \cup [kind : {"response"}, status : StatusCodes \ {200}, body : {EmptyBody}]
        \cup {[kind |-> "transport", status |-> 0, body |-> EmptyBody]}

\* `date` arguments, as character sequences
Dates ==
    { <<"2","0","2","2","-","0","5","-","0","1">>,
      <<"2","0","2","2","-","5","-","1">>,
      <<"0","5","/","0","1","/","2","0","2","2">>,
      <<"2","0","2","3","-","0","2","-","2","9">>,
      << >> }

DaysArgs == 0 .. MaxDaysArg

(***************************************************************************)
(* Values returned / raised by a method call.                              *)
(***************************************************************************)
NoExc == [exc |-> "none", msg |-> "none"]
Raise(e, m) == [exc |-> e, msg |-> m]

RetNone == [kind |-> "None", list |-> << >>, int |-> 0, bool |-> FALSE]
RetBool(b) == [kind |-> "bool", list |-> << >>, int |-> 0, bool |-> b]
RetList(l) == [kind |-> "list", list |-> l, int |-> 0, bool |-> FALSE]
RetInt(n) == [kind |-> "int", list |-> << >>, int |-> n, bool |-> FALSE]

\* the messages of the ValueErrors the model raises
MSG_EMPTY == "Favourites is empty"
MSG_DUPLICATE == "Location with name {location} already exists in favourites"
MSG_NOT_FOUND == "Location '{location}' not found in favourites."
MSG_INVALID_LOCATION == "Invalid location name: {location}"
MSG_BAD_DATE == "Days must be in the format of YYYY-MM-dd, got {date}"
MSG_BAD_DAYS == "Days must be greater than 0 and less than 10, got {days}"

\* the result of one method call: the list afterwards, what was raised,
\* what was returned, the provider requests issued and the log lines written
Result(fav, raised, ret, reqs, log) ==
    [favourites |-> fav, raised |-> raised, ret |-> ret,
     requests |-> reqs, log |-> log]

Request(endpoint, q) == [endpoint |-> endpoint, q |-> q]

(***************************************************************************)
(* Python list primitives.                                                 *)
(***************************************************************************)
\* x in l
In(x, l) == \E i \in 1 .. Len(l) : l[i] = x

\* index of the first element equal to x (0 when there is none)
FirstIndex(x, l) ==
    IF In(x, l)
    THEN CHOOSE i \in 1 .. Len(l) :
            /\ l[i] = x
            /\ \A j \in 1 .. (i - 1) : l[j] # x
    ELSE 0

\* mutant of ListRemove: drops the last element instead of the match
ListRemoveLast(l, x) == SubSeq(l, 1, Len(l) - 1)

\* l.remove(x) on a list that contains x: deletes the first match
ListRemove(l, x) ==
    LET i == FirstIndex(x, l)
    IN SubSeq(l, 1, i - 1) \o SubSeq(l, i + 1, Len(l))

\* mutant of ListAppend: inserts at the front
ListPrepend(l, x) == <<x>> \o l

\* l.append(x)
ListAppend(l, x) == Append(l, x)

(***************************************************************************)
(* requests.Response.  The methods index the Response object itself        *)
(* (response["current"], response["forecast"]), never response.json().     *)
(* requests.Response defines no __getitem__, so the subscription raises    *)
(* TypeError, which no except clause of the methods catches.               *)
(***************************************************************************)
MSG_NOT_SUBSCRIPTABLE == "'Response' object is not subscriptable"
MSG_TRANSPORT == "requests.exceptions.RequestException"

\* response[key]
GetItem(response, key) == Raise("TypeError", MSG_NOT_SUBSCRIPTABLE)

(***************************************************************************)
(* The record constructions of the weather methods, as functions of a      *)
(* decoded payload (what response.json() would give).  A dict lookup of a  *)
(* missing key raises KeyError, [0] on an empty list raises IndexError.    *)
(***************************************************************************)
Mapped(raisedExc, records) == [raised |-> raisedExc, records |-> records]

\* CurrentWeather(name=..., temperature=response["current"]["temp_c"], ...);
\* keyword arguments, so the order in which the fields are written is immaterial
CurrentWeather(name, payload) ==
    IF payload.current = << >>
    THEN Mapped(Raise("KeyError", "current"), << >>)
    ELSE LET current == payload.current[1]
         IN Mapped(NoExc,
              << [humidity |-> current.humidity,
                  pressure_mb |-> current.pressure_mb,
                  cloud |-> current.cloud,
                  condition |-> current.condition.text,
                  name |-> name,
                  temperature |-> current.temp_c,
                  feels_like |-> current.feelslike_c,
                  wind_speed |-> current.wind_kph,
                  wind_direction |-> current.wind_dir,
                  precipitation |-> current.precip_mm] >>)

\* WeatherData(name=..., date=day["date"], min_temp=day["day"]["mintemp_c"], ...)
WeatherData(name, day) ==
    [condition |-> day.day.condition.text,
     date |-> day.date,
     name |-> name,
     min_temp |-> day.day.mintemp_c,
     max_temp |-> day.day.maxtemp_c,
     avg_temp |-> day.day.avgtemp_c,
     max_wind_speed |-> day.day.maxwind_kph,
     total_precipitation_mm |-> day.day.totalprecip_mm,
     total_snow_cm |-> day.day.totalsnow_cm,
     avg_visibility |-> day.day.avgvis_km,
     avg_humidity |-> day.day.avghumidity,
     chance_of_rain |-> day.day.daily_chance_of_rain,
     chance_of_snow |-> day.day.daily_chance_of_rain]

\* day = response["forecast"]["forecastday"][0]; historical_data = WeatherData(...)
HistoricalData(name, payload) ==
    IF payload.forecast = << >>
    THEN Mapped(Raise("KeyError", "forecast"), << >>)
    ELSE IF payload.forecast[1].forecastday = << >>
    THEN Mapped(Raise("IndexError", "list index out of range"), << >>)
    ELSE Mapped(NoExc, << WeatherData(name, payload.forecast[1].forecastday[1]) >>)

\* for day in response["forecast"]["forecastday"]: forecasts.append(WeatherData(...))
Forecasts(name, payload) ==
    IF payload.forecast = << >>
    THEN Mapped(Raise("KeyError", "forecast"), << >>)
    ELSE LET forecastday == payload.forecast[1].forecastday
         IN Mapped(NoExc, [i \in 1 .. Len(forecastday) |->
                              WeatherData(name, forecastday[i])])

(***************************************************************************)
(* FavouritesModel: utility functions.                                     *)
(***************************************************************************)
\* check_if_empty(): raises ValueError when the list is empty
check_if_empty(fav) ==
    IF fav = << >>
    THEN [raised |-> Raise("ValueError", MSG_EMPTY),
          log |-> << <<"error", "Favourites is empty">> >>]
    ELSE [raised |-> NoExc, log |-> << >>]

\* mutant of validate_location_name: a non-200 answer is taken for success
validate_location_name_lenient(fav, location_name, answer) ==
    LET reqs == << Request("/timezone.json", location_name) >>
    IN IF answer.kind = "transport"
       THEN Result(fav, Raise("RequestException", MSG_TRANSPORT), RetNone, reqs,
                   << <<"error", "Request error while making API call">> >>)
       ELSE Result(fav, NoExc, RetBool(TRUE), reqs, << >>)

\* validate_location_name(location_name), the provider answering `answer`
validate_location_name(fav, location_name, answer) ==
    LET reqs == << Request("/timezone.json", location_name) >>
    IN IF answer.kind = "transport"
       THEN Result(fav, Raise("RequestException", MSG_TRANSPORT), RetNone, reqs,
                   << <<"error", "Request error while making API call">> >>)
       ELSE IF answer.status = STATUS_OK
       THEN Result(fav, NoExc, RetBool(TRUE), reqs, << >>)
       ELSE Result(fav, Raise("ValueError", MSG_INVALID_LOCATION), RetNone, reqs,
                   << <<"error", "Invalid location name">> >>)

\* get_favourites_length()
get_favourites_length(fav) ==
    Result(fav, NoExc, RetInt(Len(fav)), << >>, << >>)

(***************************************************************************)
(* FavouritesModel: favourite location management.                         *)
(***************************************************************************)
\* mutant of set_favourite_location: validation comes before the
\* membership test
set_favourite_location_validate_first(fav, location, answer) ==
    LET log0 == << <<"info", "Adding location to favourite location list">> >>
        v == validate_location_name(fav, location, answer)
    IN IF v.raised # NoExc
       THEN Result(fav, v.raised, RetNone, v.requests, log0 \o v.log)
       ELSE IF In(location, fav)
       THEN Result(fav, Raise("ValueError", MSG_DUPLICATE), RetNone, v.requests,
                   log0 \o << <<"error", "Location already exists in favourites">> >>)
       ELSE Result(ListAppend(fav, location), NoExc, RetNone, v.requests,
                   log0 \o << <<"info", "Location has been added">> >>)

\* mutant of set_favourite_location: the membership test is missing
set_favourite_location_no_dup_check(fav, location, answer) ==
    LET log0 == << <<"info", "Adding location to favourite location list">> >>
        v == validate_location_name(fav, location, answer)
    IN IF v.raised # NoExc
       THEN Result(fav, v.raised, RetNone, v.requests, log0 \o v.log)
       ELSE Result(ListAppend(fav, location), NoExc, RetNone, v.requests,
                   log0 \o << <<"info", "Location has been added">> >>)

\* set_favourite_location(location).  The closing logger.info formats a
\* string with %d; the logging module reports that formatting error on
\* stderr (Handler.handleError) and the call returns normally.
set_favourite_location(fav, location, answer) ==
    LET log0 == << <<"info", "Adding location to favourite location list">> >>
    IN IF In(location, fav)
       THEN Result(fav, Raise("ValueError", MSG_DUPLICATE), RetNone, << >>,
                   log0 \o << <<"error", "Location already exists in favourites">> >>)
       ELSE LET v == validate_location_name(fav, location, answer)
            IN IF v.raised # NoExc
               THEN Result(fav, v.raised, RetNone, v.requests, log0 \o v.log)
               ELSE IF v.ret.bool
               THEN Result(ListAppend(fav, location), NoExc, RetNone, v.requests,
                           log0 \o << <<"info", "Location %d has been added">> >>)
               ELSE Result(fav, NoExc, RetNone, v.requests, log0)

\* mutant of remove_favourite_location: a missing location is ignored
remove_favourite_location_silent(fav, location) ==
    LET log0 == << <<"info", "Removing location from favourites">> >>
    IN IF In(location, fav)
       THEN Result(ListRemove(fav, location), NoExc, RetNone, << >>,
                   log0 \o << <<"info", "Location has been removed">> >>)
       ELSE Result(fav, NoExc, RetNone, << >>, log0)

\* remove_favourite_location(location)
remove_favourite_location(fav, location) ==
    LET log0 == << <<"info", "Removing location from favourites">> >>
        e == check_if_empty(fav)
    IN IF e.raised # NoExc
       THEN Result(fav, e.raised, RetNone, << >>, log0 \o e.log)
       ELSE IF In(location, fav)
       THEN Result(ListRemove(fav, location), NoExc, RetNone, << >>,
                   log0 \o << <<"info", "Location has been removed">> >>)
       ELSE Result(fav, Raise("ValueError", MSG_NOT_FOUND), RetNone, << >>,
                   log0 \o << <<"error", "Location doesn't exist in favourites">> >>)

\* mutant of clear_favourites: an empty list is an error, as in the
\* other methods
clear_favourites_guarded(fav) ==
    LET log0 == << <<"info", "Clearing favourites">> >>
        e == check_if_empty(fav)
    IN IF e.raised # NoExc
       THEN Result(fav, e.raised, RetNone, << >>, log0 \o e.log)
       ELSE Result(<< >>, NoExc, RetNone, << >>, log0)

\* clear_favourites()
clear_favourites(fav) ==
    LET log0 == << <<"info", "Clearing favourites">> >>
        n == get_favourites_length(fav).ret.int
        log1 == IF n = 0
                THEN log0 \o << <<"warning", "Clearing an empty favourites list">> >>
                ELSE log0
    IN Result(<< >>, NoExc, RetNone, << >>, log1)

(***************************************************************************)
(* datetime.strptime(date, "%Y-%m-%d"): the format compiles to the regular *)
(* expression  \d\d\d\d - (1[0-2]|0[1-9]|[1-9]) - (3[01]|[12]\d|0[1-9]|    *)
(* [1-9]| [1-9]), which must match the whole string; the fields must then  *)
(* form a calendar date.                                                   *)
(***************************************************************************)
Digits == {"0", "1", "2", "3", "4", "5", "6", "7", "8", "9"}

DigitVal(c) ==
    CASE c = "0" -> 0 [] c = "1" -> 1 [] c = "2" -> 2 [] c = "3" -> 3
      [] c = "4" -> 4 [] c = "5" -> 5 [] c = "6" -> 6 [] c = "7" -> 7
      [] c = "8" -> 8 [] c = "9" -> 9 [] OTHER -> 0

RECURSIVE NumVal(_)
NumVal(cs) ==
    IF cs = << >> THEN 0
    ELSE 10 * NumVal(SubSeq(cs, 1, Len(cs) - 1)) + DigitVal(cs[Len(cs)])

\* %m : 1[0-2] | 0[1-9] | [1-9]
MatchesMonth(cs) ==
    \/ Len(cs) = 2 /\ cs[1] = "1" /\ cs[2] \in {"0", "1", "2"}
    \/ Len(cs) = 2 /\ cs[1] = "0" /\ cs[2] \in Digits \ {"0"}
    \/ Len(cs) = 1 /\ cs[1] \in Digits \ {"0"}

\* %d : 3[01] | [12]\d | 0[1-9] | [1-9] | " "[1-9]
MatchesDay(cs) ==
    \/ Len(cs) = 2 /\ cs[1] = "3" /\ cs[2] \in {"0", "1"}
    \/ Len(cs) = 2 /\ cs[1] \in {"1", "2"} /\ cs[2] \in Digits
    \/ Len(cs) = 2 /\ cs[1] \in {"0", " "} /\ cs[2] \in Digits \ {"0"}
    \/ Len(cs) = 1 /\ cs[1] \in Digits \ {"0"}

IsLeap(y) == (y % 4 = 0) /\ ((y % 100 # 0) \/ (y % 400 = 0))

DaysInMonth(y, m) ==
    IF m = 2 THEN (IF IsLeap(y) THEN 29 ELSE 28)
    ELSE IF m \in {4, 6, 9, 11} THEN 30 ELSE 31

\* TRUE iff datetime.strptime(date, "%Y-%m-%d") returns (raises no ValueError)
StrptimeOK(date) ==
    /\ Len(date) >= 8
    /\ \A i \in 1 .. 4 : date[i] \in Digits
    /\ date[5] = "-"
    /\ \E k \in 7 .. (Len(date) - 1) :
          LET ms == SubSeq(date, 6, k - 1)
              ds == SubSeq(date, k + 1, Len(date))
              y == NumVal(SubSeq(date, 1, 4))
          IN /\ date[k] = "-"
             /\ MatchesMonth(ms)
             /\ MatchesDay(ds)
             /\ y >= 1
             /\ NumVal(ds) <= DaysInMonth(y, NumVal(ms))

(***************************************************************************)
(* FavouritesModel: retrieval functions.                                   *)
(***************************************************************************)
\* mutant of get_all_favourites: the list comes back sorted by name
\* ("Boston" < "New York" < "boston" in code-point order)
get_all_favourites_sorted(fav) ==
    LET e == check_if_empty(fav)
        rank(x) == CASE x = "Boston" -> 1 [] x = "New York" -> 2 [] OTHER -> 3
        sorted == CHOOSE s \in [1 .. Len(fav) -> Locations] :
                    /\ \A x \in Locations : In(x, s) <=> In(x, fav)
                    /\ \A i, j \in 1 .. Len(fav) : i < j => rank(s[i]) < rank(s[j])
    IN IF e.raised # NoExc
       THEN Result(fav, e.raised, RetNone, << >>, e.log)
       ELSE Result(fav, NoExc, RetList(sorted), << >>,
                   << <<"info", "Getting all favourited locations">> >>)

\* get_all_favourites()
get_all_favourites(fav) ==
    LET e == check_if_empty(fav)
    IN IF e.raised # NoExc
       THEN Result(fav, e.raised, RetNone, << >>, e.log)
       ELSE Result(fav, NoExc, RetList(fav), << >>,
                   << <<"info", "Getting all favourited locations">> >>)

\* mutant of get_weather_by_favourite_location: the request is issued
\* before the membership test
get_weather_by_favourite_location_request_first(fav, favourite_location, answer) ==
    LET e == check_if_empty(fav)
        reqs == << Request("/current.json", favourite_location) >>
    IN IF e.raised # NoExc
       THEN Result(fav, e.raised, RetNone, << >>, e.log)
       ELSE IF answer.kind = "transport"
       THEN Result(fav, Raise("RequestException", MSG_TRANSPORT), RetNone, reqs,
                   << <<"error", "Request error while making API call">> >>)
       ELSE IF ~In(favourite_location, fav)
       THEN Result(fav, Raise("ValueError", MSG_NOT_FOUND), RetNone, reqs,
                   << <<"error", "Location doesn't exist in favourites">> >>)
       ELSE IF answer.status = STATUS_OK
       THEN Result(fav, GetItem(answer, "current"), RetNone, reqs, << >>)
       ELSE Result(fav, Raise("ValueError", MSG_INVALID_LOCATION), RetNone, reqs,
                   << <<"error", "Invalid location name">> >>)

\* mutant of get_weather_by_favourite_location: a transport failure is
\* swallowed and None is returned
get_weather_by_favourite_location_swallow(fav, favourite_location, answer) ==
    LET e == check_if_empty(fav)
        log0 == << <<"info", "Getting weather for location from favourites">> >>
        reqs == << Request("/current.json", favourite_location) >>
    IN IF e.raised # NoExc
       THEN Result(fav, e.raised, RetNone, << >>, e.log)
       ELSE IF In(favourite_location, fav)
       THEN IF answer.kind = "transport"
            THEN Result(fav, NoExc, RetNone, reqs,
                        log0 \o << <<"error", "Request error while making API call">> >>)
            ELSE IF answer.status = STATUS_OK
            THEN Result(fav, GetItem(answer, "current"), RetNone, reqs, log0)
            ELSE Result(fav, Raise("ValueError", MSG_INVALID_LOCATION), RetNone, reqs,
                        log0 \o << <<"error", "Invalid location name">> >>)
       ELSE Result(fav, Raise("ValueError", MSG_NOT_FOUND), RetNone, << >>,
                   << <<"error", "Location doesn't exist in favourites">> >>)

\* get_weather_by_favourite_location(favourite_location)
get_weather_by_favourite_location(fav, favourite_location, answer) ==
    LET e == check_if_empty(fav)
        log0 == << <<"info", "Getting weather for location from favourites">> >>
        reqs == << Request("/current.json", favourite_location) >>
    IN IF e.raised # NoExc
       THEN Result(fav, e.raised, RetNone, << >>, e.log)
       ELSE IF In(favourite_location, fav)
       THEN IF answer.kind = "transport"
            THEN Result(fav, Raise("RequestException", MSG_TRANSPORT), RetNone, reqs,
                        log0 \o << <<"error", "Request error while making API call">> >>)
            ELSE IF answer.status = STATUS_OK
            THEN \* CurrentWeather(temperature=response["current"]["temp_c"], ...)
                 Result(fav, GetItem(answer, "current"), RetNone, reqs, log0)
            ELSE Result(fav, Raise("ValueError", MSG_INVALID_LOCATION), RetNone, reqs,
                        log0 \o << <<"error", "Invalid location name">> >>)
       ELSE Result(fav, Raise("ValueError", MSG_NOT_FOUND), RetNone, << >>,
                   << <<"error", "Location doesn't exist in favourites">> >>)

\* the for loop of get_all_favourite_weathers from entry i on; answers[i]
\* is the provider's answer to the request for fav[i]
\* mutant of WeathersLoop: a failed request is skipped and the loop goes on
RECURSIVE WeathersLoop_skip_failed(_, _, _, _, _, _)
WeathersLoop_skip_failed(fav, answers, i, weathers, reqs, log) ==
    IF i > Len(fav)
    THEN Result(fav, NoExc, RetList(weathers), reqs, log)
    ELSE LET reqs1 == Append(reqs, Request("/current.json", fav[i]))
         IN IF answers[i].kind = "response" /\ answers[i].status = STATUS_OK
            THEN Result(fav, GetItem(answers[i], "current"), RetNone, reqs1, log)
            ELSE WeathersLoop_skip_failed(fav, answers, i + 1, weathers, reqs1, log)

RECURSIVE WeathersLoop(_, _, _, _, _, _)
WeathersLoop(fav, answers, i, weathers, reqs, log) ==
    IF i > Len(fav)
    THEN Result(fav, NoExc, RetList(weathers), reqs, log)
    ELSE LET reqs1 == Append(reqs, Request("/current.json", fav[i]))
         IN IF answers[i].kind = "transport"
            THEN Result(fav, Raise("RequestException", MSG_TRANSPORT), RetNone, reqs1,
                        log \o << <<"error", "Request error while making API call">> >>)
            ELSE IF answers[i].status = STATUS_OK
            THEN \* CurrentWeather(temperature=response["current"]["temp_c"], ...)
                 LET item == GetItem(answers[i], "current")
                 IN IF item.exc # "none"
                    THEN Result(fav, item, RetNone, reqs1, log)
                    ELSE WeathersLoop(fav, answers, i + 1,
                                      Append(weathers, fav[i]), reqs1,
                                      log \o << <<"info", "Location weather successfully fetched">> >>)
            ELSE Result(fav, Raise("ValueError", MSG_INVALID_LOCATION), RetNone, reqs1,
                        log \o << <<"error", "Invalid location name">> >>)

\* get_all_favourite_weathers()
get_all_favourite_weathers(fav, answers) ==
    LET e == check_if_empty(fav)
    IN IF e.raised # NoExc
       THEN Result(fav, e.raised, RetNone, << >>, e.log)
       ELSE WeathersLoop(fav, answers, 1, << >>, << >>,
                         << <<"info", "Getting all weathers from favourites">> >>)

\* mutant of get_historical_weather_by_favourite_location: a favourite the
\* provider rejects is dropped from the list
get_historical_weather_by_favourite_location_evict(fav, favourite_location, date, answer) ==
    LET e == check_if_empty(fav)
        log0 == << <<"info", "Getting historical weather data for location from favourites">> >>
        reqs == << Request("/history.json", favourite_location) >>
    IN IF e.raised # NoExc
       THEN Result(fav, e.raised, RetNone, << >>, e.log)
       ELSE IF ~StrptimeOK(date)
       THEN Result(fav, Raise("ValueError", MSG_BAD_DATE), RetNone, << >>, << >>)
       ELSE IF In(favourite_location, fav)
       THEN IF answer.kind = "transport"
            THEN Result(fav, Raise("RequestException", MSG_TRANSPORT), RetNone, reqs,
                        log0 \o << <<"error", "Request error while making API call">> >>)
            ELSE IF answer.status = STATUS_OK
            THEN Result(fav, GetItem(answer, "forecast"), RetNone, reqs, log0)
            ELSE Result(ListRemove(fav, favourite_location),
                        Raise("ValueError", MSG_INVALID_LOCATION), RetNone, reqs,
                        log0 \o << <<"error", "Invalid location name">> >>)
       ELSE Result(fav, Raise("ValueError", MSG_NOT_FOUND), RetNone, << >>,
                   << <<"error", "Location doesn't exist in favourites">> >>)

\* get_historical_weather_by_favourite_location(favourite_location, date)
get_historical_weather_by_favourite_location(fav, favourite_location, date, answer) ==
    LET e == check_if_empty(fav)
        log0 == << <<"info", "Getting historical weather data for location from favourites">> >>
        reqs == << Request("/history.json", favourite_location) >>
    IN IF e.raised # NoExc
       THEN Result(fav, e.raised, RetNone, << >>, e.log)
       ELSE IF ~StrptimeOK(date)
       THEN Result(fav, Raise("ValueError", MSG_BAD_DATE), RetNone, << >>, << >>)
       ELSE IF In(favourite_location, fav)
       THEN IF answer.kind = "transport"
            THEN Result(fav, Raise("RequestException", MSG_TRANSPORT), RetNone, reqs,
                        log0 \o << <<"error", "Request error while making API call">> >>)
            ELSE IF answer.status = STATUS_OK
            THEN \* day = response["forecast"]["forecastday"][0]
                 Result(fav, GetItem(answer, "forecast"), RetNone, reqs, log0)
            ELSE Result(fav, Raise("ValueError", MSG_INVALID_LOCATION), RetNone, reqs,
                        log0 \o << <<"error", "Invalid location name">> >>)
       ELSE Result(fav, Raise("ValueError", MSG_NOT_FOUND), RetNone, << >>,
                   << <<"error", "Location doesn't exist in favourites">> >>)

\* mutant of get_forecast_by_favourite_location: the upper limit is exclusive
get_forecast_by_favourite_location_exclusive(fav, favourite_location, days, answer) ==
    LET e == check_if_empty(fav)
        log0 == << <<"info", "Getting forecast for location from favourites">> >>
        reqs == << Request("/forecast.json", favourite_location) >>
    IN IF e.raised # NoExc
       THEN Result(fav, e.raised, RetNone, << >>, e.log)
       ELSE IF ~(days > DAYS_LOW /\ days < DAYS_HIGH)
       THEN Result(fav, Raise("ValueError", MSG_BAD_DAYS), RetNone, << >>, << >>)
       ELSE IF In(favourite_location, fav)
       THEN IF answer.kind = "transport"
            THEN Result(fav, Raise("RequestException", MSG_TRANSPORT), RetNone, reqs,
                        log0 \o << <<"error", "Request error while making API call">> >>)
            ELSE IF answer.status = STATUS_OK
            THEN Result(fav, GetItem(answer, "forecast"), RetNone, reqs, log0)
            ELSE Result(fav, Raise("ValueError", MSG_INVALID_LOCATION), RetNone, reqs,
                        log0 \o << <<"error", "Invalid location name">> >>)
       ELSE Result(fav, Raise("ValueError", MSG_NOT_FOUND), RetNone, << >>,
                   << <<"error", "Location doesn't exist in favourites">> >>)

\* get_forecast_by_favourite_location(favourite_location, days)
get_forecast_by_favourite_location(fav, favourite_location, days, answer) ==
    LET e == check_if_empty(fav)
        log0 == << <<"info", "Getting forecast for location from favourites">> >>
        reqs == << Request("/forecast.json", favourite_location) >>
    IN IF e.raised # NoExc
       THEN Result(fav, e.raised, RetNone, << >>, e.log)
       ELSE IF ~(days > DAYS_LOW /\ days <= DAYS_HIGH)
       THEN Result(fav, Raise("ValueError", MSG_BAD_DAYS), RetNone, << >>, << >>)
       ELSE IF In(favourite_location, fav)
       THEN IF answer.kind = "transport"
            THEN Result(fav, Raise("RequestException", MSG_TRANSPORT), RetNone, reqs,
                        log0 \o << <<"error", "Request error while making API call">> >>)
            ELSE IF answer.status = STATUS_OK
            THEN \* for day in response["forecast"]["forecastday"]: ...
                 Result(fav, GetItem(answer, "forecast"), RetNone, reqs, log0)
            ELSE Result(fav, Raise("ValueError", MSG_INVALID_LOCATION), RetNone, reqs,
                        log0 \o << <<"error", "Invalid location name">> >>)
       ELSE Result(fav, Raise("ValueError", MSG_NOT_FOUND), RetNone, << >>,
                   << <<"error", "Location doesn't exist in favourites">> >>)

(***************************************************************************)
(* weather_management/models/user_model.py: the credential store.          *)
(* The Users table is the sequence of its rows (username, salt,            *)
(* hashed_password).  bcrypt.hashpw is a deterministic, collision-free     *)
(* function of (password, salt); bcrypt.gensalt picks any salt.            *)
(***************************************************************************)
Usernames == {"Bob", "Alice"}
Passwords == {"1234", "4321"}
Salts == {"salt1", "salt2"}

MSG_USER_NOT_FOUND == "User with username {username} not found"
MSG_USER_EXISTS == "User with username '{username}' already exists."
MSG_DB == "sqlite3.Error"

\* one row of the Users table
Row(username, salt, hashed_password) ==
    [username |-> username, salt |-> salt, hashed_password |-> hashed_password]

\* bcrypt.hashpw(password.encode('utf-8'), salt)
hashpw(password, salt) == [salt |-> salt, password |-> password]

\* the table without rows
NoUsers == << >>

\* the positions of the rows of a username
RowsOf(table, username) ==
    {i \in 1 .. Len(table) : table[i].username = username}

\* cursor.execute("SELECT ... FROM Users WHERE username = ?"); cursor.fetchone():
\* the first matching row as a sequence of length 1, or the empty sequence (None)
SqlSelect(table, username) ==
    IF RowsOf(table, username) = {}
    THEN << >>
    ELSE << table[CHOOSE i \in RowsOf(table, username) :
                     \A j \in RowsOf(table, username) : i <= j] >>

\* INSERT INTO Users (username, salt, hashed_password): the table's UNIQUE
\* constraint on username makes the insert of a second row for a username
\* fail with sqlite3.IntegrityError
SqlInsert(table, username, salt, hashed_password) ==
    IF RowsOf(table, username) # {}
    THEN [integrityError |-> TRUE, table |-> table]
    ELSE [integrityError |-> FALSE,
          table |-> Append(table, Row(username, salt, hashed_password))]

\* UPDATE Users SET hashed_password = ? WHERE username = ?
SqlUpdateHash(table, username, hashed_password) ==
    [i \in 1 .. Len(table) |->
        IF table[i].username = username
        THEN Row(username, table[i].salt, hashed_password)
        ELSE table[i]]

\* cursor.executescript(create_table_script): drops and recreates Users
SqlRecreate(table) == NoUsers

\* the result of one user_model call: the table afterwards, what was raised
\* and what was returned
UResult(table, raisedExc, returned) ==
    [users |-> table, raised |-> raisedExc, ret |-> returned]

\* mutant of login: any password logs an existing user in
login_no_compare(table, username, password, dbFails) ==
    IF dbFails
    THEN UResult(table, Raise("sqlite3.Error", MSG_DB), RetNone)
    ELSE IF SqlSelect(table, username) # << >>
    THEN UResult(table, NoExc, RetBool(TRUE))
    ELSE UResult(table, Raise("ValueError", MSG_USER_NOT_FOUND), RetNone)

\* login(username, password); dbFails: the database raises sqlite3.Error
login(table, username, password, dbFails) ==
    IF dbFails
    THEN UResult(table, Raise("sqlite3.Error", MSG_DB), RetNone)
    ELSE LET row == SqlSelect(table, username)
         IN IF row # << >>
            THEN IF row[1].hashed_password = hashpw(password, row[1].salt)
                 THEN UResult(table, NoExc, RetBool(TRUE))
                 ELSE UResult(table, NoExc, RetBool(FALSE))
            ELSE UResult(table, Raise("ValueError", MSG_USER_NOT_FOUND), RetNone)

\* mutant of create_user: the row is appended without regard to the rows
\* the table holds
create_user_no_unique(table, username, password, salt, dbFails) ==
    LET hashed_password == hashpw(password, salt)
    IN IF dbFails
       THEN UResult(table, Raise("sqlite3.Error", MSG_DB), RetNone)
       ELSE IF RowsOf(table, username) # {}
       THEN UResult(Append(table, Row(username, salt, hashed_password)),
                    Raise("ValueError", MSG_USER_EXISTS), RetNone)
       ELSE UResult(Append(table, Row(username, salt, hashed_password)),
                    NoExc, RetNone)

\* create_user(username, password); salt: what bcrypt.gensalt() returns
create_user(table, username, password, salt, dbFails) ==
    LET hashed_password == hashpw(password, salt)
    IN IF dbFails
       THEN UResult(table, Raise("sqlite3.Error", MSG_DB), RetNone)
       ELSE LET ins == SqlInsert(table, username, salt, hashed_password)
            IN IF ins.integrityError
               THEN UResult(table, Raise("ValueError", MSG_USER_EXISTS), RetNone)
               ELSE UResult(ins.table, NoExc, RetNone)

\* mutant of update_password: the new hash is computed with a fresh salt,
\* which is not stored
update_password_fresh_salt(table, username, password, dbFails) ==
    IF dbFails
    THEN UResult(table, Raise("sqlite3.Error", MSG_DB), RetNone)
    ELSE LET row == SqlSelect(table, username)
         IN IF row # << >>
            THEN LET salt == CHOOSE x \in Salts : x # row[1].salt
                     hashed_password == hashpw(password, salt)
                 IN UResult(SqlUpdateHash(table, username, hashed_password),
                            NoExc, RetNone)
            ELSE UResult(table, Raise("ValueError", MSG_USER_NOT_FOUND), RetNone)

\* mutant of update_password: the UPDATE has no WHERE clause
update_password_all_rows(table, username, password, dbFails) ==
    IF dbFails
    THEN UResult(table, Raise("sqlite3.Error", MSG_DB), RetNone)
    ELSE LET row == SqlSelect(table, username)
         IN IF row # << >>
            THEN LET salt == row[1].salt
                     hashed_password == hashpw(password, salt)
                 IN UResult([i \in 1 .. Len(table) |->
                                Row(table[i].username, table[i].salt, hashed_password)],
                            NoExc, RetNone)
            ELSE UResult(table, Raise("ValueError", MSG_USER_NOT_FOUND), RetNone)

\* mutant of update_password: a new salt is generated and stored with the hash
update_password_rotate(table, username, password, dbFails) ==
    IF dbFails
    THEN UResult(table, Raise("sqlite3.Error", MSG_DB), RetNone)
    ELSE LET row == SqlSelect(table, username)
         IN IF row # << >>
            THEN LET salt == CHOOSE x \in Salts : x # row[1].salt
                     hashed_password == hashpw(password, salt)
                 IN UResult([i \in 1 .. Len(table) |->
                                IF table[i].username = username
                                THEN Row(username, salt, hashed_password)
                                ELSE table[i]],
                            NoExc, RetNone)
            ELSE UResult(table, Raise("ValueError", MSG_USER_NOT_FOUND), RetNone)

\* update_password(username, password)
update_password(table, username, password, dbFails) ==
    IF dbFails
    THEN UResult(table, Raise("sqlite3.Error", MSG_DB), RetNone)
    ELSE LET row == SqlSelect(table, username)
         IN IF row # << >>
            THEN LET salt == row[1].salt
                     hashed_password == hashpw(password, salt)
                 IN UResult(SqlUpdateHash(table, username, hashed_password),
                            NoExc, RetNone)
            ELSE UResult(table, Raise("ValueError", MSG_USER_NOT_FOUND), RetNone)

\* mutant of clear_users: the script is read but not executed
clear_users_not_executed(table, dbFails) ==
    IF dbFails
    THEN UResult(table, Raise("sqlite3.Error", MSG_DB), RetNone)
    ELSE UResult(table, NoExc, RetNone)

\* clear_users()
clear_users(table, dbFails) ==
    IF dbFails
    THEN UResult(table, Raise("sqlite3.Error", MSG_DB), RetNone)
    ELSE UResult(SqlRecreate(table), NoExc, RetNone)

(***************************************************************************)
(* State: one FavouritesModel instance and a record of its latest call.    *)
(***************************************************************************)
VARIABLES
    favourites,   \* self.favourites
    prev,         \* self.favourites when the latest call started
    call,         \* the latest call: method name and arguments
    answers,      \* the provider's answers to the requests of the latest call
    raised,       \* the exception the latest call raised (NoExc: it returned)
    ret,          \* the value the latest call returned
    requests,     \* the provider requests the latest call issued, in order
    log,          \* the log lines the latest call wrote
    accepted,     \* history: locations the provider answered 200 for, on a
                  \* validation request issued by set_favourite_location
    clock,        \* history: number of set_favourite_location calls that returned
    addedAt,      \* history: for each location, the clock value of the latest
                  \* returned set_favourite_location call for it, 0 if it has been
                  \* removed or cleared since (or was never added)
    mapping,      \* the latest record construction: payload in, records out
    users,        \* the Users table
    prevUsers,    \* the Users table when the latest user_model call started
                  \* (in the application: when the latest request arrived)
    ucall,        \* the latest user_model call: function name and arguments
                  \* (in the application: the call the latest request made,
                  \* "none" if it made none)
    uraised,      \* the exception the latest user_model call raised
    uret,         \* the value the latest user_model call returned
    pw,           \* history: for each username, the password of the latest
                  \* create_user or update_password call that returned for it
                  \* (NoPassword when it has no row)
    salt0,        \* history: for each username, the salt bcrypt.gensalt()
                  \* returned in the create_user call that inserted its row
                  \* (NoSalt when it has no row)
    favourites_models,  \* app.py: the process-wide dict username -> FavouritesModel,
                        \* each model given by its favourites list
    prevModels,   \* favourites_models when the latest HTTP request arrived
    http,         \* the latest HTTP request and the response to it
    shared,       \* the favourites list of a model used by concurrent requests
    threads       \* for each request thread, its position in
                  \* set_favourite_location and its local variables

favVars == <<favourites, prev, call, answers, raised, ret, requests, log,
             accepted, clock, addedAt>>
userVars == <<users, prevUsers, ucall, uraised, uret, pw, salt0>>
appVars == <<favourites_models, prevModels, http>>
raceVars == <<shared, threads>>

vars == <<favourites, prev, call, answers, raised, ret, requests, log,
          accepted, clock, addedAt, mapping, users, prevUsers, ucall,
          uraised, uret, pw, salt0, favourites_models, prevModels, http,
          shared, threads>>

NoSalt == "<none>"

\* favourites_models: Dict[str, FavouritesModel] = {}
NoModels == [u \in {} |-> << >>]

\* an HTTP request and its response: the endpoint, the username, location and
\* password it names (None when absent), the status code of the response,
\* the exception the handler caught and the provider answers it consumed
None == "<None>"
Http(endpoint, username, location, password, status, exc, ans) ==
    [status |-> status, exc |-> exc, endpoint |-> endpoint, location |-> location,
     answers |-> ans, username |-> username, password |-> password]

\* the request threads
Threads == {"t1", "t2"}

\* a thread that has not entered set_favourite_location
Idle == [raised |-> NoExc, location |-> "", pc |-> "idle"]

NoPassword == "<none>"

UCall(op, username, password, salt) ==
    [op |-> op, username |-> username, password |-> password, salt |-> salt]

NoMapping ==
    [op |-> "none", name |-> "", payload |-> EmptyBody, raised |-> NoExc,
     records |-> << >>]

NoDate == << >>

Call(op, location, date, days) ==
    [op |-> op, location |-> location, date |-> date, days |-> days]

\* FavouritesModel.__init__, an empty Users table, an empty favourites_models
Init ==
    /\ favourites = << >>
    /\ prev = << >>
    /\ call = Call("__init__", "", NoDate, 0)
    /\ answers = << >>
    /\ raised = NoExc
    /\ ret = RetNone
    /\ requests = << >>
    /\ log = << >>
    /\ accepted = {}
    /\ clock = 0
    /\ addedAt = [l \in Locations |-> 0]
    /\ mapping = NoMapping
    /\ users = NoUsers
    /\ prevUsers = NoUsers
    /\ ucall = UCall("none", "", "", "")
    /\ uraised = NoExc
    /\ uret = RetNone
    /\ pw = [u \in Usernames |-> NoPassword]
    /\ salt0 = [u \in Usernames |-> NoSalt]
    /\ favourites_models = NoModels
    /\ prevModels = NoModels
    /\ http = Http("none", None, None, None, 0, NoExc, << >>)
    /\ shared = << >>
    /\ threads = [t \in Threads |-> Idle]

\* the latest call was `c`, the provider answered `ans`, the method's result is r
Record(c, ans, r) ==
    /\ favourites' = r.favourites
    /\ prev' = favourites
    /\ call' = c
    /\ answers' = SubSeq(ans, 1, Len(r.requests))
    /\ raised' = r.raised
    /\ ret' = r.ret
    /\ requests' = r.requests
    /\ log' = r.log
    /\ UNCHANGED <<mapping, userVars, appVars, raceVars>>

SetFavouriteLocation ==
    /\ clock < MaxAdds
    /\ \E location \in Locations, answer \in ProviderAnswers :
          LET r == set_favourite_location(favourites, location, answer)
          IN /\ Record(Call("set_favourite_location", location, NoDate, 0),
                       <<answer>>, r)
             /\ accepted' = IF /\ r.requests # << >>
                               /\ answer.kind = "response"
                               /\ answer.status = 200
                            THEN accepted \cup {location}
                            ELSE accepted
             /\ IF r.raised = NoExc
                THEN /\ clock' = clock + 1
                     /\ addedAt' = [addedAt EXCEPT ![location] = clock + 1]
                ELSE UNCHANGED <<clock, addedAt>>

RemoveFavouriteLocation ==
    \E location \in Locations :
       LET r == remove_favourite_location(favourites, location)
       IN /\ Record(Call("remove_favourite_location", location, NoDate, 0),
                    << >>, r)
          /\ addedAt' = IF r.raised = NoExc
                        THEN [addedAt EXCEPT ![location] = 0]
                        ELSE addedAt
          /\ UNCHANGED <<accepted, clock>>

ClearFavourites ==
    LET r == clear_favourites(favourites)
    IN /\ Record(Call("clear_favourites", "", NoDate, 0), << >>, r)
       /\ addedAt' = IF r.raised = NoExc
                     THEN [l \in Locations |-> 0]
                     ELSE addedAt
       /\ UNCHANGED <<accepted, clock>>

GetAllFavourites ==
    /\ Record(Call("get_all_favourites", "", NoDate, 0), << >>,
              get_all_favourites(favourites))
    /\ UNCHANGED <<accepted, clock, addedAt>>

GetFavouritesLength ==
    /\ Record(Call("get_favourites_length", "", NoDate, 0), << >>,
              get_favourites_length(favourites))
    /\ UNCHANGED <<accepted, clock, addedAt>>

ValidateLocationName ==
    /\ \E location \in Locations, answer \in ProviderAnswers :
          Record(Call("validate_location_name", location, NoDate, 0), <<answer>>,
                 validate_location_name(favourites, location, answer))
    /\ UNCHANGED <<accepted, clock, addedAt>>

GetWeatherByFavouriteLocation ==
    /\ \E location \in Locations, answer \in ProviderAnswers :
          Record(Call("get_weather_by_favourite_location", location, NoDate, 0),
                 <<answer>>,
                 get_weather_by_favourite_location(favourites, location, answer))
    /\ UNCHANGED <<accepted, clock, addedAt>>

GetAllFavouriteWeathers ==
    /\ \E ans \in [1 .. Len(favourites) -> ProviderAnswers] :
          Record(Call("get_all_favourite_weathers", "", NoDate, 0), ans,
                 get_all_favourite_weathers(favourites, ans))
    /\ UNCHANGED <<accepted, clock, addedAt>>

GetHistoricalWeatherByFavouriteLocation ==
    /\ \E location \in Locations, date \in Dates, answer \in ProviderAnswers :
          Record(Call("get_historical_weather_by_favourite_location", location, date, 0),
                 <<answer>>,
                 get_historical_weather_by_favourite_location(favourites, location,
                                                              date, answer))
    /\ UNCHANGED <<accepted, clock, addedAt>>

GetForecastByFavouriteLocation ==
    /\ \E location \in Locations, days \in DaysArgs, answer \in ProviderAnswers :
          Record(Call("get_forecast_by_favourite_location", location, NoDate, days),
                 <<answer>>,
                 get_forecast_by_favourite_location(favourites, location, days, answer))
    /\ UNCHANGED <<accepted, clock, addedAt>>

Next ==
    \/ SetFavouriteLocation
    \/ RemoveFavouriteLocation
    \/ ClearFavourites
    \/ GetAllFavourites
    \/ GetFavouritesLength
    \/ ValidateLocationName
    \/ GetWeatherByFavouriteLocation
    \/ GetAllFavouriteWeathers
    \/ GetHistoricalWeatherByFavouriteLocation
    \/ GetForecastByFavouriteLocation

Spec == Init /\ [][Next]_vars

(***************************************************************************)
(* The record constructions applied to decoded payloads.                   *)
(***************************************************************************)
\* longest forecastday list tried
MaxForecastDays == 2

\* the days the provider may report: the chances of rain and of snow differ
\* on the first two and agree on the third
MappingDays ==
    { Day1,
      ForecastDay("2024-12-10", 0, 10, "Snow"),
      ForecastDay("2024-12-11", 50, 50, "Sleet") }

RECURSIVE SeqsUpTo(_, _)
SeqsUpTo(S, n) ==
    IF n = 0 THEN { << >> }
    ELSE LET shorter == SeqsUpTo(S, n - 1)
         IN shorter \cup { Append(q, x) : q \in shorter, x \in S }

MappingPayloads ==
    { Body(c, << >>) : c \in { << >>, <<CurrentBoston>> } }
        \cup { Body(<< >>, << [forecastday |-> fd] >>) :
                  fd \in SeqsUpTo(MappingDays, MaxForecastDays) }

SetMapping(op, name, payload, m) ==
    /\ mapping' = [op |-> op, name |-> name, payload |-> payload,
                   raised |-> m.raised, records |-> m.records]

MapCurrentWeather ==
    /\ \E name \in Locations, payload \in MappingPayloads :
          SetMapping("CurrentWeather", name, payload, CurrentWeather(name, payload))
    /\ UNCHANGED <<favVars, userVars, appVars, raceVars>>

MapHistoricalData ==
    /\ \E name \in Locations, payload \in MappingPayloads :
          SetMapping("HistoricalData", name, payload, HistoricalData(name, payload))
    /\ UNCHANGED <<favVars, userVars, appVars, raceVars>>

MapForecasts ==
    /\ \E name \in Locations, payload \in MappingPayloads :
          SetMapping("Forecasts", name, payload, Forecasts(name, payload))
    /\ UNCHANGED <<favVars, userVars, appVars, raceVars>>

NextMapping ==
    \/ MapCurrentWeather
    \/ MapHistoricalData
    \/ MapForecasts

SpecMapping == Init /\ [][NextMapping]_vars

(***************************************************************************)
(* The credential store, driven by sequential user_model calls.            *)
(***************************************************************************)
\* the latest user_model call was `c` and its result is r
URecord(c, r) ==
    /\ users' = r.users
    /\ prevUsers' = users
    /\ ucall' = c
    /\ uraised' = r.raised
    /\ uret' = r.ret
    /\ UNCHANGED <<favVars, mapping, appVars, raceVars>>

Login ==
    /\ \E username \in Usernames, password \in Passwords, dbFails \in BOOLEAN :
          URecord(UCall("login", username, password, ""),
                  login(users, username, password, dbFails))
    /\ UNCHANGED <<pw, salt0>>

CreateUser ==
    \E username \in Usernames, password \in Passwords, salt \in Salts,
       dbFails \in BOOLEAN :
       LET r == create_user(users, username, password, salt, dbFails)
       IN /\ URecord(UCall("create_user", username, password, salt), r)
          /\ pw' = IF r.raised = NoExc
                   THEN [pw EXCEPT ![username] = password]
                   ELSE pw
          /\ salt0' = IF r.raised = NoExc
                      THEN [salt0 EXCEPT ![username] = salt]
                      ELSE salt0

UpdatePassword ==
    \E username \in Usernames, password \in Passwords, dbFails \in BOOLEAN :
       LET r == update_password(users, username, password, dbFails)
       IN /\ URecord(UCall("update_password", username, password, ""), r)
          /\ pw' = IF r.raised = NoExc
                   THEN [pw EXCEPT ![username] = password]
                   ELSE pw
          /\ UNCHANGED salt0

ClearUsers ==
    \E dbFails \in BOOLEAN :
       LET r == clear_users(users, dbFails)
       IN /\ URecord(UCall("clear_users", "", "", ""), r)
          /\ pw' = IF r.raised = NoExc
                   THEN [u \in Usernames |-> NoPassword]
                   ELSE pw
          /\ salt0' = IF r.raised = NoExc
                      THEN [u \in Usernames |-> NoSalt]
                      ELSE salt0

NextUsers ==
    \/ Login
    \/ CreateUser
    \/ UpdatePassword
    \/ ClearUsers

SpecUsers == Init /\ [][NextUsers]_vars

(***************************************************************************)
(* app.py: the HTTP endpoints over user_model and favourites_models.       *)
(***************************************************************************)
\* 'if not username': the value is None or the empty string
Falsy(x) == x \in {None, ""}

HasModel(models, username) == username \in DOMAIN models

\* favourites_models[username] = a model whose favourites list is fav
PutModel(models, username, fav) ==
    [u \in DOMAIN models \cup {username} |->
        IF u = username THEN fav ELSE models[u]]

\* no user_model call was made
NoUCall == [called |-> FALSE, users |-> << >>, raised |-> NoExc, ret |-> RetNone]

\* the user_model call made by a handler, with its result
UCalled(r) == [called |-> TRUE, users |-> r.users, raised |-> r.raised, ret |-> r.ret]

\* what a handler answers and leaves behind: the status code, the exception
\* it caught (NoExc if none), favourites_models afterwards, the user_model
\* call it made and the provider answers its model call consumed
AppResult(status, exc, models, u) ==
    [status |-> status, exc |-> exc, models |-> models, u |-> u,
     answers |-> << >>]

\* the result of a handler whose model call r was handed `answer`: the
\* answer was consumed if r issued a request
Consuming(answer, r, res) ==
    [res EXCEPT !.answers = SubSeq(<<answer>>, 1, Len(r.requests))]

\* raised by get_all_favourite_weathers(): the name `location` is not defined
NameError == Raise("NameError", "name 'location' is not defined")

\* login(): POST /api/login
app_login(models, table, username, password, dbFails) ==
    IF username = None \/ password = None
    THEN AppResult(400, NoExc, models, NoUCall)
    ELSE LET r == login(table, username, password, dbFails)
         IN IF r.raised # NoExc
            THEN AppResult(500, r.raised, models, UCalled(r))
            ELSE IF r.ret.bool
            THEN AppResult(200, NoExc, models, UCalled(r))
            ELSE AppResult(401, NoExc, models, UCalled(r))

\* create_account(): POST /api/create-account
app_create_account(models, table, username, password, salt, dbFails) ==
    IF username = None \/ password = None
    THEN AppResult(400, NoExc, models, NoUCall)
    ELSE LET r == create_user(table, username, password, salt, dbFails)
         IN IF r.raised # NoExc
            THEN AppResult(500, r.raised, models, UCalled(r))
            ELSE AppResult(200, NoExc, PutModel(models, username, << >>), UCalled(r))

\* update_password(): POST /api/update-password
app_update_password(models, table, username, password, dbFails) ==
    IF username = None \/ password = None
    THEN AppResult(400, NoExc, models, NoUCall)
    ELSE LET r == update_password(table, username, password, dbFails)
         IN IF r.raised # NoExc
            THEN AppResult(500, r.raised, models, UCalled(r))
            ELSE AppResult(200, NoExc, models, UCalled(r))

\* mutant of app_set_favourite_location: a username without a model gets one
app_set_favourite_location_autocreate(models, username, location, answer) ==
    IF Falsy(username) \/ Falsy(location)
    THEN AppResult(400, NoExc, models, NoUCall)
    ELSE LET fav == IF HasModel(models, username) THEN models[username] ELSE << >>
             r == set_favourite_location(fav, location, answer)
         IN Consuming(answer, r,
               IF r.raised # NoExc
               THEN AppResult(500, r.raised, PutModel(models, username, r.favourites), NoUCall)
               ELSE AppResult(201, NoExc, PutModel(models, username, r.favourites), NoUCall))

\* set_favourite_location(): POST /api/set_favourite_location
app_set_favourite_location(models, username, location, answer) ==
    IF Falsy(username) \/ Falsy(location)
    THEN AppResult(400, NoExc, models, NoUCall)
    ELSE IF ~HasModel(models, username)
    THEN AppResult(404, NoExc, models, NoUCall)
    ELSE LET r == set_favourite_location(models[username], location, answer)
         IN Consuming(answer, r,
               IF r.raised # NoExc
               THEN AppResult(500, r.raised, PutModel(models, username, r.favourites), NoUCall)
               ELSE AppResult(201, NoExc, PutModel(models, username, r.favourites), NoUCall))

\* mutant of app_remove_favourite_location: the handler calls
\* remove_favourite_location
app_remove_favourite_location_removes(models, username, location, answer) ==
    IF Falsy(username) \/ Falsy(location)
    THEN AppResult(400, NoExc, models, NoUCall)
    ELSE IF ~HasModel(models, username)
    THEN AppResult(404, NoExc, models, NoUCall)
    ELSE LET r == remove_favourite_location(models[username], location)
         IN IF r.raised # NoExc
            THEN AppResult(500, r.raised, PutModel(models, username, r.favourites), NoUCall)
            ELSE AppResult(201, NoExc, PutModel(models, username, r.favourites), NoUCall)

\* remove_favourite_location(): POST /api/remove_favourite_location; the
\* handler calls favourite_model.set_favourite_location(location)
app_remove_favourite_location(models, username, location, answer) ==
    IF Falsy(username) \/ Falsy(location)
    THEN AppResult(400, NoExc, models, NoUCall)
    ELSE IF ~HasModel(models, username)
    THEN AppResult(404, NoExc, models, NoUCall)
    ELSE LET r == set_favourite_location(models[username], location, answer)
         IN Consuming(answer, r,
               IF r.raised # NoExc
               THEN AppResult(500, r.raised, PutModel(models, username, r.favourites), NoUCall)
               ELSE AppResult(201, NoExc, PutModel(models, username, r.favourites), NoUCall))

\* clear_favourites(): POST /api/clear-favourites
app_clear_favourites(models, username) ==
    IF Falsy(username)
    THEN AppResult(400, NoExc, models, NoUCall)
    ELSE IF ~HasModel(models, username)
    THEN AppResult(404, NoExc, models, NoUCall)
    ELSE LET r == clear_favourites(models[username])
         IN IF r.raised # NoExc
            THEN AppResult(500, r.raised, PutModel(models, username, r.favourites), NoUCall)
            ELSE AppResult(200, NoExc, PutModel(models, username, r.favourites), NoUCall)

\* the tail of the GET handlers that catch only Exception: any exception of
\* the model's method gives 500
Answer500(models, username, r) ==
    IF r.raised # NoExc
    THEN AppResult(500, r.raised, PutModel(models, username, r.favourites), NoUCall)
    ELSE AppResult(200, NoExc, PutModel(models, username, r.favourites), NoUCall)

\* the tail of the GET handlers with 'except ValueError' before
\* 'except Exception': a ValueError gives 404, any other exception 500
Answer404(models, username, r) ==
    IF r.raised.exc = "ValueError"
    THEN AppResult(404, r.raised, PutModel(models, username, r.favourites), NoUCall)
    ELSE IF r.raised # NoExc
    THEN AppResult(500, r.raised, PutModel(models, username, r.favourites), NoUCall)
    ELSE AppResult(200, NoExc, PutModel(models, username, r.favourites), NoUCall)

\* get_all_favourite_locations(username): GET /api/get-all-favourites/<username>
app_get_all_favourite_locations(models, username) ==
    IF ~HasModel(models, username)
    THEN AppResult(404, NoExc, models, NoUCall)
    ELSE Answer500(models, username, get_all_favourites(models[username]))

\* get_weather_by_favourite_location(username, location):
\* GET /api/get_weather_by_favourite_location/<username>/<int:location>;
\* `location` is the int the route converter produced, and the answer is not
\* used unless that int is in the list
app_get_weather_by_favourite_location(models, username, location, answer) ==
    IF ~HasModel(models, username)
    THEN AppResult(404, NoExc, models, NoUCall)
    ELSE LET r == get_weather_by_favourite_location(models[username], location, answer)
         IN Consuming(answer, r, Answer404(models, username, r))

\* get_all_favourite_weathers(username): the argument `location` of the
\* model call is an undefined name, so evaluating the call raises NameError
app_get_all_favourite_weathers(models, username) ==
    IF ~HasModel(models, username)
    THEN AppResult(404, NoExc, models, NoUCall)
    ELSE AppResult(500, NameError, models, NoUCall)

\* get_historical_weather_by_favourite_location(username, favourite_location, date)
app_get_historical_weather_by_favourite_location(models, username, favourite_location, date, answer) ==
    IF ~HasModel(models, username)
    THEN AppResult(404, NoExc, models, NoUCall)
    ELSE LET r == get_historical_weather_by_favourite_location(
                      models[username], favourite_location, date, answer)
         IN Consuming(answer, r, Answer404(models, username, r))

\* get_forecast_by_favourite_location(username, favourite_location, days)
app_get_forecast_by_favourite_location(models, username, favourite_location, days, answer) ==
    IF ~HasModel(models, username)
    THEN AppResult(404, NoExc, models, NoUCall)
    ELSE LET r == get_forecast_by_favourite_location(
                      models[username], favourite_location, days, answer)
         IN Consuming(answer, r, Answer404(models, username, r))

\* get_favourites_length(username)
app_get_favourites_length(models, username) ==
    IF ~HasModel(models, username)
    THEN AppResult(404, NoExc, models, NoUCall)
    ELSE Answer500(models, username, get_favourites_length(models[username]))

(***************************************************************************)
(* The application: HTTP requests handled one at a time, and direct calls   *)
(* of user_model.clear_users.                                              *)
(***************************************************************************)
AppUsernames == Usernames \cup {None}
AppPasswords == Passwords \cup {None}
AppSalts == {"salt1"}
AppLocations == {"Boston", "New York"}

\* a `location` path parameter after the int converter: equal to no str
IntLocations == {"<int 5>"}

AppDates ==
    { <<"2","0","2","2","-","0","5","-","0","1">>,
      <<"0","5","/","0","1","/","2","0","2","2">> }

AppDays == {0, 1}

\* the provider's answers, payloads left out
AppAnswers == {a \in ProviderAnswers : a.body = EmptyBody}

\* the request was `endpoint` with these fields and the handler's result is r
Handle(endpoint, username, location, password, salt, r) ==
    /\ http' = Http(endpoint, username, location, password, r.status, r.exc,
                    r.answers)
    /\ favourites_models' = r.models
    /\ prevModels' = favourites_models
    /\ users' = IF r.u.called THEN r.u.users ELSE users
    /\ prevUsers' = users
    /\ ucall' = IF r.u.called
                THEN UCall(endpoint, username, password, salt)
                ELSE UCall("none", "", "", "")
    /\ uraised' = r.u.raised
    /\ uret' = r.u.ret
    /\ UNCHANGED <<favVars, mapping, raceVars>>

ApiLogin ==
    /\ \E username \in AppUsernames, password \in AppPasswords, dbFails \in BOOLEAN :
          Handle("login", username, None, password, "",
                 app_login(favourites_models, users, username, password, dbFails))
    /\ UNCHANGED <<pw, salt0>>

ApiCreateAccount ==
    \E username \in AppUsernames, password \in AppPasswords, salt \in AppSalts,
       dbFails \in BOOLEAN :
       LET r == app_create_account(favourites_models, users, username, password,
                                   salt, dbFails)
       IN /\ Handle("create_user", username, None, password, salt, r)
          /\ pw' = IF r.status = 200 THEN [pw EXCEPT ![username] = password] ELSE pw
          /\ salt0' = IF r.status = 200 THEN [salt0 EXCEPT ![username] = salt] ELSE salt0

ApiUpdatePassword ==
    \E username \in AppUsernames, password \in AppPasswords, dbFails \in BOOLEAN :
       LET r == app_update_password(favourites_models, users, username, password,
                                    dbFails)
       IN /\ Handle("update_password", username, None, password, "", r)
          /\ pw' = IF r.status = 200 THEN [pw EXCEPT ![username] = password] ELSE pw
          /\ UNCHANGED salt0

\* user_model.clear_users() called directly: app.py has no endpoint for it
CallClearUsers ==
    \E dbFails \in BOOLEAN :
       LET r == clear_users(users, dbFails)
       IN /\ Handle("clear_users", None, None, None, "",
                    AppResult(0, r.raised, favourites_models, UCalled(r)))
          /\ pw' = IF r.raised = NoExc THEN [u \in Usernames |-> NoPassword] ELSE pw
          /\ salt0' = IF r.raised = NoExc THEN [u \in Usernames |-> NoSalt] ELSE salt0

ApiSetFavouriteLocation ==
    /\ \E username \in AppUsernames, location \in AppLocations \cup {None},
          answer \in AppAnswers :
          Handle("set_favourite_location", username, location, None, "",
                 app_set_favourite_location(favourites_models, username, location, answer))
    /\ UNCHANGED <<pw, salt0>>

ApiRemoveFavouriteLocation ==
    /\ \E username \in AppUsernames, location \in AppLocations \cup {None},
          answer \in AppAnswers :
          Handle("remove_favourite_location", username, location, None, "",
                 app_remove_favourite_location(favourites_models, username, location,
                                               answer))
    /\ UNCHANGED <<pw, salt0>>

ApiClearFavourites ==
    /\ \E username \in AppUsernames :
          Handle("clear_favourites", username, None, None, "",
                 app_clear_favourites(favourites_models, username))
    /\ UNCHANGED <<pw, salt0>>

ApiGetAllFavouriteLocations ==
    /\ \E username \in Usernames :
          Handle("get_all_favourite_locations", username, None, None, "",
                 app_get_all_favourite_locations(favourites_models, username))
    /\ UNCHANGED <<pw, salt0>>

ApiGetWeatherByFavouriteLocation ==
    /\ \E username \in Usernames, location \in IntLocations, answer \in AppAnswers :
          Handle("get_weather_by_favourite_location", username, location, None, "",
                 app_get_weather_by_favourite_location(favourites_models, username,
                                                       location, answer))
    /\ UNCHANGED <<pw, salt0>>

ApiGetAllFavouriteWeathers ==
    /\ \E username \in Usernames :
          Handle("get_all_favourite_weathers", username, None, None, "",
                 app_get_all_favourite_weathers(favourites_models, username))
    /\ UNCHANGED <<pw, salt0>>

ApiGetHistoricalWeatherByFavouriteLocation ==
    /\ \E username \in Usernames, location \in AppLocations, date \in AppDates,
          answer \in AppAnswers :
          Handle("get_historical_weather_by_favourite_location", username, location,
                 None, "",
                 app_get_historical_weather_by_favourite_location(
                     favourites_models, username, location, date, answer))
    /\ UNCHANGED <<pw, salt0>>

ApiGetForecastByFavouriteLocation ==
    /\ \E username \in Usernames, location \in AppLocations, days \in AppDays,
          answer \in AppAnswers :
          Handle("get_forecast_by_favourite_location", username, location, None, "",
                 app_get_forecast_by_favourite_location(
                     favourites_models, username, location, days, answer))
    /\ UNCHANGED <<pw, salt0>>

ApiGetFavouritesLength ==
    /\ \E username \in Usernames :
          Handle("get_favourites_length", username, None, None, "",
                 app_get_favourites_length(favourites_models, username))
    /\ UNCHANGED <<pw, salt0>>

NextApp ==
    \/ ApiLogin
    \/ ApiCreateAccount
    \/ ApiUpdatePassword
    \/ CallClearUsers
    \/ ApiSetFavouriteLocation
    \/ ApiRemoveFavouriteLocation
    \/ ApiClearFavourites
    \/ ApiGetAllFavouriteLocations
    \/ ApiGetWeatherByFavouriteLocation
    \/ ApiGetAllFavouriteWeathers
    \/ ApiGetHistoricalWeatherByFavouriteLocation
    \/ ApiGetForecastByFavouriteLocation
    \/ ApiGetFavouritesLength

SpecApp == Init /\ [][NextApp]_vars

(***************************************************************************)
(* Vocabulary of the specification, in terms of what the code raises.      *)
(***************************************************************************)
DuplicateEntry == raised = Raise("ValueError", MSG_DUPLICATE)
InvalidLocation == raised = Raise("ValueError", MSG_INVALID_LOCATION)
EmptyCollection == raised = Raise("ValueError", MSG_EMPTY)
NotFound == raised = Raise("ValueError", MSG_NOT_FOUND)
ProviderError == raised.exc = "RequestException"
Succeeded == raised = NoExc

Rejected(a) == a.kind = "response" /\ a.status # 200
TransportFailure(a) == a.kind = "transport"

Count(x, l) == Cardinality({i \in 1 .. Len(l) : l[i] = x})

(***************************************************************************)
(* Properties of the favourites registry.                                  *)
(***************************************************************************)

\* C1: after any sequence of set_favourite_location, remove_favourite_location
\* and clear_favourites calls (whatever the provider answers), no location
\* name occurs more than once in favourites; names are compared exactly, so
\* "Boston" and "boston" are two names.
C1_NoDuplicates ==
    \A x \in Locations : Count(x, favourites) <= 1

\* C1 witness: a set_favourite_location call for a name that was already in a
\* list holding both "Boston" and "boston".
C1_Witness ==
    /\ call.op = "set_favourite_location"
    /\ In(call.location, prev)
    /\ In("Boston", favourites) /\ In("boston", favourites)

\* C2: a set_favourite_location call whose validation request the provider
\* answers with a status other than 200 raises the invalid-location error and
\* leaves favourites as it was; and every entry of favourites was accepted
\* (status 200) on a validation request of a set_favourite_location call.
C2_RejectedNotAdded ==
    /\ ( /\ call.op = "set_favourite_location"
         /\ requests # << >>
         /\ Rejected(answers[1]) )
       => (InvalidLocation /\ favourites = prev)
    /\ \A i \in 1 .. Len(favourites) : favourites[i] \in accepted

\* C2 witness: a rejected set_favourite_location on a list that has entries.
C2_Witness ==
    /\ call.op = "set_favourite_location"
    /\ requests # << >>
    /\ Rejected(answers[1])
    /\ Len(favourites) >= 2
    /\ ~In(call.location, favourites)

\* C3: set_favourite_location for a location already in favourites raises the
\* duplicate error, leaves the list (content, order, length) unchanged and
\* issues no provider request.
C3_DuplicateRefusedWithoutRequest ==
    (call.op = "set_favourite_location" /\ In(call.location, prev))
        => /\ DuplicateEntry
           /\ favourites = prev
           /\ Len(favourites) = Len(prev)
           /\ requests = << >>

\* C3 witness: a duplicate set_favourite_location on a list of two or more.
C3_Witness ==
    /\ call.op = "set_favourite_location"
    /\ In(call.location, prev)
    /\ Len(prev) >= 2
    /\ DuplicateEntry

\* C4: a set_favourite_location call that returns leaves favourites equal to
\* the previous list with the location appended as last element: the earlier
\* entries keep their positions and the length grows by exactly one.
C4_SuccessAppends ==
    (call.op = "set_favourite_location" /\ Succeeded)
        => /\ Len(favourites) = Len(prev) + 1
           /\ favourites[Len(favourites)] = call.location
           /\ \A i \in 1 .. Len(prev) : favourites[i] = prev[i]

\* C4 witness: a successful set_favourite_location on a list of two.
C4_Witness ==
    /\ call.op = "set_favourite_location"
    /\ Succeeded
    /\ Len(prev) = 2

\* C5: remove_favourite_location raises the empty-collection error on an empty
\* list and the not-found error on a non-empty list that lacks the location;
\* in both cases favourites is unchanged.
C5_RemoveFailures ==
    /\ (call.op = "remove_favourite_location" /\ prev = << >>)
          => (EmptyCollection /\ favourites = prev)
    /\ ( /\ call.op = "remove_favourite_location"
         /\ prev # << >>
         /\ ~In(call.location, prev) )
          => (NotFound /\ favourites = prev)

\* C5 witness: removing a non-member from a non-empty list.
C5_Witness ==
    /\ call.op = "remove_favourite_location"
    /\ Len(prev) = 2
    /\ ~In(call.location, prev)
    /\ NotFound

\* C6: a remove_favourite_location call that returns removed exactly the one
\* entry equal to the location: the list is the previous list with that entry
\* deleted, the others in the same relative order, one shorter, and the
\* location is no longer a member.
C6_SuccessRemovesOne ==
    (call.op = "remove_favourite_location" /\ Succeeded)
        => /\ Count(call.location, prev) = 1
           /\ favourites = SelectSeq(prev, LAMBDA x : x # call.location)
           /\ Len(favourites) = Len(prev) - 1
           /\ ~In(call.location, favourites)

\* C6 witness: removing the first of three entries.
C6_Witness ==
    /\ call.op = "remove_favourite_location"
    /\ Succeeded
    /\ Len(prev) = 3
    /\ prev[1] = call.location

\* C7: clear_favourites never raises and always leaves favourites empty; on an
\* already empty list it changes nothing and writes the warning log line.
C7_ClearAlwaysEmpties ==
    (call.op = "clear_favourites")
        => /\ Succeeded
           /\ favourites = << >>
           /\ (prev = << >>)
                => /\ favourites = prev
                   /\ In(<<"warning", "Clearing an empty favourites list">>, log)
           /\ (prev # << >>)
                => ~In(<<"warning", "Clearing an empty favourites list">>, log)

\* C7 witness: clearing a list that earlier calls had filled and emptied.
C7_Witness ==
    /\ call.op = "clear_favourites"
    /\ prev = << >>
    /\ clock > 0
    /\ Succeeded

\* C8: get_all_favourites raises the empty-collection error on an empty list;
\* otherwise it returns all current favourites in insertion order: exactly the
\* locations whose latest successful set_favourite_location has not been
\* undone by a removal or a clear, ordered by the time of that call.
C8_ListInInsertionOrder ==
    /\ (call.op = "get_all_favourites" /\ prev = << >>) => EmptyCollection
    /\ (call.op = "get_all_favourites" /\ prev # << >>)
          => /\ Succeeded
             /\ ret.kind = "list"
             /\ Len(ret.list) = Cardinality({l \in Locations : addedAt[l] # 0})
             /\ \A i \in 1 .. Len(ret.list) : addedAt[ret.list[i]] # 0
             /\ \A i, j \in 1 .. Len(ret.list) :
                   i < j => addedAt[ret.list[i]] < addedAt[ret.list[j]]

\* C8 witness: listing after "boston" was added, removed and added again
\* behind "New York".
C8_Witness ==
    /\ call.op = "get_all_favourites"
    /\ ret.list = <<"New York", "boston">>
    /\ addedAt["New York"] = 2
    /\ addedAt["boston"] = 3

\* C9: get_weather_by_favourite_location raises the empty-collection error on
\* an empty list and the not-found error on a non-empty list that lacks the
\* location; in both cases it issues no provider request.
C9_WeatherGuardsBeforeRequest ==
    /\ (call.op = "get_weather_by_favourite_location" /\ prev = << >>)
          => (EmptyCollection /\ requests = << >>)
    /\ ( /\ call.op = "get_weather_by_favourite_location"
         /\ prev # << >>
         /\ ~In(call.location, prev) )
          => (NotFound /\ requests = << >>)

\* C9 witness: weather asked for a non-member of a non-empty list.
C9_Witness ==
    /\ call.op = "get_weather_by_favourite_location"
    /\ prev # << >>
    /\ ~In(call.location, prev)
    /\ NotFound

\* the methods that issue provider requests
ProviderCallingOps ==
    {"validate_location_name", "set_favourite_location",
     "get_weather_by_favourite_location", "get_all_favourite_weathers",
     "get_historical_weather_by_favourite_location",
     "get_forecast_by_favourite_location"}

\* C10: in every method that calls the provider, an answer with a status
\* other than 200 makes the call raise the invalid-location error and a
\* transport failure makes it raise the transport exception; the failing
\* request is the call's last one (no retry, no further request) and the call
\* returns nothing.
C10_ProviderFailuresPropagate ==
    (call.op \in ProviderCallingOps)
        => \A i \in 1 .. Len(answers) :
              /\ Rejected(answers[i])
                    => (InvalidLocation /\ i = Len(requests) /\ ret = RetNone)
              /\ TransportFailure(answers[i])
                    => (ProviderError /\ i = Len(requests) /\ ret = RetNone)

\* C10 witness: a transport failure on the weather request for a favourite.
C10_Witness ==
    /\ call.op = "get_weather_by_favourite_location"
    /\ Len(prev) >= 2
    /\ requests # << >>
    /\ TransportFailure(answers[1])
    /\ ProviderError

\* an answer with status 200
Accepted(a) == a.kind = "response" /\ a.status = 200

InvalidDate == raised = Raise("ValueError", MSG_BAD_DATE)
InvalidDays == raised = Raise("ValueError", MSG_BAD_DAYS)

\* C11: when every request of get_all_favourite_weathers on a non-empty list
\* is answered 200 with a `current` object, the call succeeds and returns
\* exactly one CurrentWeather record per favourite, in the list's order
\* (record i is built from favourite i and answer i), after exactly one
\* request per entry.
C11_OneRecordPerFavourite ==
    ( /\ call.op = "get_all_favourite_weathers"
      /\ prev # << >>
      /\ \A i \in 1 .. Len(answers) :
            Accepted(answers[i]) /\ answers[i].body.current # << >> )
        => /\ Succeeded
           /\ ret.kind = "list"
           /\ Len(ret.list) = Len(prev)
           /\ Len(requests) = Len(prev)
           /\ \A i \in 1 .. Len(prev) :
                 /\ requests[i] = Request("/current.json", prev[i])
                 /\ << ret.list[i] >> = CurrentWeather(prev[i], answers[i].body).records

\* C12: in get_all_favourite_weathers a request that is answered with a
\* status other than 200, or that fails in transport, ends the call: an
\* exception is raised, nothing is returned (no partial list), the failing
\* request is the last one issued, and the requests issued are those for the
\* favourites up to the failing one, so none is issued for a later favourite.
C12_FirstFailureAborts ==
    (call.op = "get_all_favourite_weathers")
        => \A i \in 1 .. Len(answers) :
              (Rejected(answers[i]) \/ TransportFailure(answers[i]))
                 => /\ ~Succeeded
                    /\ ret = RetNone
                    /\ Len(requests) = i
                    /\ \A j \in 1 .. Len(requests) :
                          requests[j] = Request("/current.json", prev[j])

\* C12 witness: the request for the first of at least two favourites is
\* rejected, and it is the only request.
C12_Witness ==
    /\ call.op = "get_all_favourite_weathers"
    /\ Len(prev) >= 2
    /\ Len(requests) = 1
    /\ Rejected(answers[1])
    /\ InvalidLocation

\* a date written YYYY-MM-DD: four digits, two digits, two digits, naming a
\* day of the calendar
IsYYYYMMDD(date) ==
    /\ Len(date) = 10
    /\ \A i \in {1, 2, 3, 4, 6, 7, 9, 10} : date[i] \in Digits
    /\ date[5] = "-"
    /\ date[8] = "-"
    /\ NumVal(SubSeq(date, 1, 4)) >= 1
    /\ NumVal(SubSeq(date, 6, 7)) \in 1 .. 12
    /\ NumVal(SubSeq(date, 9, 10)) \in
          1 .. DaysInMonth(NumVal(SubSeq(date, 1, 4)), NumVal(SubSeq(date, 6, 7)))

\* C13: get_historical_weather_by_favourite_location checks, in this order,
\* that the list is not empty, that the date is written YYYY-MM-DD and that
\* the location is a favourite: an empty list gives the empty-collection
\* error whatever the date, a date not written YYYY-MM-DD on a non-empty list
\* gives the invalid-date error whether the location is a favourite or not, a
\* date written YYYY-MM-DD with a location that is no favourite gives the
\* not-found error, and none of the three issues a provider request.
C13_HistoricalChecksInOrder ==
    (call.op = "get_historical_weather_by_favourite_location")
        => /\ (prev = << >>) => (EmptyCollection /\ requests = << >>)
           /\ (prev # << >> /\ ~IsYYYYMMDD(call.date))
                 => (InvalidDate /\ requests = << >>)
           /\ (prev # << >> /\ IsYYYYMMDD(call.date) /\ ~In(call.location, prev))
                 => (NotFound /\ requests = << >>)

\* C14: get_forecast_by_favourite_location on a non-empty list raises the
\* invalid-days error for every `days` outside 1..10 and for no `days` in
\* 1..10; the empty check comes first (an empty list gives the
\* empty-collection error whatever `days`), the membership check last (an
\* out-of-range `days` gives the invalid-days error also for a location that
\* is no favourite), and a call that fails any of the three checks issues no
\* provider request, while a call that passes them issues one.
C14_ForecastDaysRange ==
    (call.op = "get_forecast_by_favourite_location")
        => /\ (prev = << >>) => (EmptyCollection /\ requests = << >>)
           /\ (prev # << >> /\ call.days \notin 1 .. 10)
                 => (InvalidDays /\ requests = << >>)
           /\ (prev # << >> /\ call.days \in 1 .. 10)
                 => /\ ~InvalidDays
                    /\ ~In(call.location, prev) => (NotFound /\ requests = << >>)
                    /\ In(call.location, prev)
                          => requests = << Request("/forecast.json", call.location) >>

\* C14 witness: days = 11 for a location that is no favourite of a non-empty
\* list is refused for its days.
C14_Witness ==
    /\ call.op = "get_forecast_by_favourite_location"
    /\ prev # << >>
    /\ ~In(call.location, prev)
    /\ call.days = 11
    /\ InvalidDays

\* C15: get_forecast_by_favourite_location for a favourite and `days` in
\* 1..10, answered 200 with a forecast of any number of days, succeeds and
\* returns exactly `days` records.
C15_ForecastReturnsDaysRecords ==
    ( /\ call.op = "get_forecast_by_favourite_location"
      /\ In(call.location, prev)
      /\ call.days \in 1 .. 10
      /\ requests # << >>
      /\ Accepted(answers[1])
      /\ answers[1].body.forecast # << >> )
        => /\ Succeeded
           /\ ret.kind = "list"
           /\ Len(ret.list) = call.days

\* C16: every record built from a day of a historical or forecast payload
\* has the day's daily_chance_of_snow as its chance_of_snow and the day's
\* daily_chance_of_rain as its chance_of_rain.
C16_ChancesMapped ==
    (mapping.op \in {"HistoricalData", "Forecasts"})
        => \A i \in 1 .. Len(mapping.records) :
              LET day == mapping.payload.forecast[1].forecastday[i].day
              IN /\ mapping.records[i].chance_of_snow = day.daily_chance_of_snow
                 /\ mapping.records[i].chance_of_rain = day.daily_chance_of_rain

\* the answer lacks a field the method reads from it
LacksField(op, body) ==
    CASE op \in {"get_weather_by_favourite_location", "get_all_favourite_weathers"}
            -> body.current = << >>
      [] op = "get_historical_weather_by_favourite_location"
            -> body.forecast = << >> \/ body.forecast[1].forecastday = << >>
      [] op = "get_forecast_by_favourite_location"
            -> body.forecast = << >>
      [] OTHER -> FALSE

\* C17: a weather method whose request is answered 200 without a field the
\* method reads ends in one of the failures the method defines (a ValueError
\* or the provider's RequestException), not in a fault of another kind.
C17_MissingFieldIsDefinedFailure ==
    ( /\ requests # << >>
      /\ Accepted(answers[Len(requests)])
      /\ LacksField(call.op, answers[Len(requests)].body) )
        => raised.exc \in {"ValueError", "RequestException"}

(***************************************************************************)
(* Vocabulary of the user_model claims.                                    *)
(***************************************************************************)
UserNotFound == uraised = Raise("ValueError", MSG_USER_NOT_FOUND)
UserExists == uraised = Raise("ValueError", MSG_USER_EXISTS)
DatabaseError == uraised.exc = "sqlite3.Error"

\* the username had a row when the latest user_model call started
HadRow(username) == RowsOf(prevUsers, username) # {}

\* what login(username, password) returns on the table as it is now
LoginNow(username, password) == login(users, username, password, FALSE).ret

\* C18: unless the database fails, login for a username that has a row
\* returns True when the password is the one the user was last given and
\* False (a returned value, no exception) for any other password; login for
\* a username without a row raises the not-found error; and login, failing
\* or not, leaves the Users table as it was.
C18_LoginChecksPassword ==
    (ucall.op = "login")
        => /\ users = prevUsers
           /\ (~DatabaseError /\ HadRow(ucall.username))
                 => /\ uraised = NoExc
                    /\ uret = RetBool(ucall.password = pw[ucall.username])
           /\ (~DatabaseError /\ ~HadRow(ucall.username))
                 => (UserNotFound /\ uret = RetNone)

\* C18 witness: a login with a password other than the user's returned False.
C18_Witness ==
    /\ ucall.op = "login"
    /\ HadRow(ucall.username)
    /\ ucall.password # pw[ucall.username]
    /\ uret = RetBool(FALSE)

C20_UpdateThenLogin ==
    (ucall.op = "update_password" /\ ~DatabaseError)
        => /\ HadRow(ucall.username)
                 => /\ uraised = NoExc
                    /\ LoginNow(ucall.username, ucall.password) = RetBool(TRUE)
                    /\ \A old \in Passwords \ {ucall.password} :
                          LoginNow(ucall.username, old) = RetBool(FALSE)
           /\ ~HadRow(ucall.username)
                 => /\ UserNotFound
                    /\ users = prevUsers
                    /\ RowsOf(users, ucall.username) = {}

\* C20 witness: the password of a user was changed to another one.
C20_Witness ==
    /\ ucall.op = "update_password"
    /\ HadRow(ucall.username)
    /\ uraised = NoExc
    /\ users # prevUsers

\* the row a username has in a table (the username must have one)
RowOf(table, username) == SqlSelect(table, username)[1]

\* C21: at every moment the row of every user carries the salt generated when
\* the row was created, however many password updates have happened since,
\* and its hash is the hash of the user's latest password under that salt;
\* and an update_password call leaves the row of every other username as it
\* was.
C21_SaltNeverRotated ==
    /\ \A u \in Usernames :
          (RowsOf(users, u) # {})
             => /\ RowOf(users, u).salt = salt0[u]
                /\ RowOf(users, u).hashed_password = hashpw(pw[u], salt0[u])
    /\ (ucall.op = "update_password")
          => \A v \in Usernames \ {ucall.username} :
                SqlSelect(users, v) = SqlSelect(prevUsers, v)

\* C21 witness: a password was changed while another user had a row, and the
\* salt of the changed row is still the one of its creation.
C21_Witness ==
    /\ ucall.op = "update_password"
    /\ uraised = NoExc
    /\ RowOf(users, ucall.username).hashed_password
          # RowOf(prevUsers, ucall.username).hashed_password
    /\ RowOf(users, ucall.username).salt = salt0[ucall.username]
    /\ \E v \in Usernames \ {ucall.username} : RowsOf(users, v) # {}

\* C22 (as stated): an update_password call that returns has stored a salt
\* different from the one stored before, and a hash computed with that new
\* salt.
C22_SaltRotatedOnUpdate ==
    (ucall.op = "update_password" /\ uraised = NoExc)
        => /\ RowOf(users, ucall.username).salt # RowOf(prevUsers, ucall.username).salt
           /\ RowOf(users, ucall.username).hashed_password
                 = hashpw(ucall.password, RowOf(users, ucall.username).salt)

\* C22 (amended): an update_password call that returns has replaced the hash
\* alone: the stored salt is the one stored before the call, the stored hash
\* is the hash of the new password under that same salt, and the table has
\* as many rows as before.
C22_HashReplacedSaltKept ==
    (ucall.op = "update_password" /\ uraised = NoExc)
        => /\ RowOf(users, ucall.username).salt = RowOf(prevUsers, ucall.username).salt
           /\ RowOf(users, ucall.username).hashed_password
                 = hashpw(ucall.password, RowOf(prevUsers, ucall.username).salt)
           /\ Len(users) = Len(prevUsers)

\* C22 witness: an update_password call returned for a user whose password
\* was another one before.
C22_Witness ==
    /\ ucall.op = "update_password"
    /\ uraised = NoExc
    /\ RowOf(prevUsers, ucall.username).hashed_password
          # hashpw(ucall.password, RowOf(prevUsers, ucall.username).salt)

\* C23: unless the database fails, after clear_users the table has no row:
\* for every username, those that had a row included, login and
\* update_password raise the not-found error (and update_password creates no
\* row), and create_user returns, inserting the row.
C23_ClearRemovesEveryUser ==
    (ucall.op = "clear_users" /\ ~DatabaseError)
        => /\ uraised = NoExc
           /\ users = NoUsers
           /\ \A u \in Usernames, p \in Passwords :
                 /\ login(users, u, p, FALSE).raised
                       = Raise("ValueError", MSG_USER_NOT_FOUND)
                 /\ update_password(users, u, p, FALSE)
                       = UResult(users, Raise("ValueError", MSG_USER_NOT_FOUND), RetNone)
                 /\ \A s \in Salts :
                       /\ create_user(users, u, p, s, FALSE).raised = NoExc
                       /\ create_user(users, u, p, s, FALSE).users
                             = << Row(u, s, hashpw(p, s)) >>

\* C23 witness: clear_users returned on a table that had a row for every
\* username.
C23_Witness ==
    /\ ucall.op = "clear_users"
    /\ uraised = NoExc
    /\ \A u \in Usernames : RowsOf(prevUsers, u) # {}

\* the methods that only read the favourites list
ReadOps ==
    {"get_all_favourites", "get_favourites_length", "validate_location_name",
     "get_weather_by_favourite_location", "get_all_favourite_weathers",
     "get_historical_weather_by_favourite_location",
     "get_forecast_by_favourite_location"}

\* C29: a call of get_all_favourites, get_favourites_length,
\* validate_location_name, get_weather_by_favourite_location,
\* get_all_favourite_weathers, get_historical_weather_by_favourite_location
\* or get_forecast_by_favourite_location leaves the favourites list exactly
\* as it was, whether it returns or raises and whatever the provider answers.
C29_ReadsLeaveFavouritesAlone ==
    (call.op \in ReadOps) => (favourites = prev)

\* C29 witness: the provider rejected the historical request for a favourite,
\* which is still a favourite.
C29_Witness ==
    /\ call.op = "get_historical_weather_by_favourite_location"
    /\ requests # << >>
    /\ Rejected(answers[1])
    /\ InvalidLocation
    /\ In(call.location, favourites)

(***************************************************************************)
(* Vocabulary of the app.py claims.                                        *)
(***************************************************************************)
\* the endpoints that take their input from the JSON body
AccountEndpoints == {"login", "create_user", "update_password"}
JsonFavouritesEndpoints ==
    {"set_favourite_location", "remove_favourite_location", "clear_favourites"}

\* the endpoints that look the username up in favourites_models
FavouritesEndpoints ==
    JsonFavouritesEndpoints \cup
        {"get_all_favourite_locations", "get_weather_by_favourite_location",
         "get_all_favourite_weathers",
         "get_historical_weather_by_favourite_location",
         "get_forecast_by_favourite_location", "get_favourites_length"}

\* the latest request lacks an input its endpoint requires
MissingInput ==
    \/ http.endpoint \in AccountEndpoints
          /\ (http.username = None \/ http.password = None)
    \/ http.endpoint \in JsonFavouritesEndpoints /\ Falsy(http.username)
    \/ http.endpoint \in {"set_favourite_location", "remove_favourite_location"}
          /\ Falsy(http.location)

\* C24: every endpoint answers by one convention: 400 for a missing input,
\* 401 for a wrong password, 404 whenever the handler met a ValueError of the
\* models (unknown user, duplicate or invalid location, empty favourites,
\* existing username) or a username without a FavouritesModel, and 500 only
\* for an exception that is no ValueError.
C24_OneErrorConvention ==
    (http.endpoint \in AccountEndpoints \cup FavouritesEndpoints)
        => /\ MissingInput => http.status = 400
           /\ ( /\ http.endpoint = "login"
                /\ ~MissingInput
                /\ http.exc = NoExc
                /\ http.password # pw[http.username] ) => http.status = 401
           /\ (http.exc.exc = "ValueError") => http.status = 404
           /\ (http.status = 500) => http.exc.exc \notin {"none", "ValueError"}

C26_ModelOnlyWithUser ==
    \A u \in DOMAIN favourites_models : RowsOf(users, u) # {}

\* C27: a FavouritesModel is created exactly once per username: a
\* create-account request for a username that has a row is refused and
\* leaves favourites_models, the lists included, as it was; a create-account
\* request that succeeds installs a model with an empty list for a username
\* that had no model, and leaves the other models alone; no other request
\* installs or removes a model.
C27_ModelCreatedOnce ==
    /\ (http.endpoint = "create_user" /\ ~MissingInput
          /\ RowsOf(prevUsers, http.username) # {})
          => (http.status = 500 /\ favourites_models = prevModels)
    /\ (http.endpoint = "create_user" /\ http.status = 200)
          => /\ ~HasModel(prevModels, http.username)
             /\ favourites_models = PutModel(prevModels, http.username, << >>)
    /\ (http.endpoint # "create_user" \/ http.status # 200)
          => DOMAIN favourites_models = DOMAIN prevModels

\* C28: a request to a favourites endpoint for a username leaves the list of
\* every other username as it was and installs no model; and when the
\* username has no model the request is answered 404 and favourites_models
\* stays as it was.
C28_ModelsIsolated ==
    (http.endpoint \in FavouritesEndpoints)
        => /\ DOMAIN favourites_models = DOMAIN prevModels
           /\ \A v \in DOMAIN prevModels \ {http.username} :
                 favourites_models[v] = prevModels[v]
           /\ (~MissingInput /\ ~HasModel(prevModels, http.username))
                 => (http.status = 404 /\ favourites_models = prevModels)

\* C28 witness: a location was added for one username while the other had a
\* non-empty list.
C28_Witness ==
    /\ http.endpoint = "set_favourite_location"
    /\ http.status = 201
    /\ favourites_models[http.username] # prevModels[http.username]
    /\ \E v \in DOMAIN prevModels \ {http.username} : prevModels[v] # << >>

(***************************************************************************)
(* Two requests in set_favourite_location on one FavouritesModel.  The     *)
(* development server answers each request in a thread of its own and the  *)
(* model has no lock, so a thread can be preempted between the membership  *)
(* test (line 50), the provider call inside validate_location_name (line   *)
(* 53, blocking network I/O) and the append (line 55).                     *)
(***************************************************************************)
\* most entries the shared list has when a new call may start
MaxShared == 2

\* the location argument of the concurrent calls
RaceLocations == {"Boston", "New York"}

\* thread t moves to position pc, having raised e
Goto(t, pc, e) ==
    threads' = [threads EXCEPT ![t] = [raised |-> e,
                                       location |-> threads[t].location,
                                       pc |-> pc]]

\* a request thread enters set_favourite_location(location)
RaceCall(t) ==
    /\ threads[t].pc = "idle"
    /\ Len(shared) < MaxShared
    /\ \E location \in RaceLocations :
          threads' = [threads EXCEPT ![t] = [raised |-> NoExc,
                                             location |-> location,
                                             pc |-> "check"]]
    /\ UNCHANGED <<shared, favVars, mapping, userVars, appVars>>

\* if location in self.favourites: raise ValueError(...)
RaceCheck(t) ==
    /\ threads[t].pc = "check"
    /\ IF In(threads[t].location, shared)
       THEN Goto(t, "done", Raise("ValueError", MSG_DUPLICATE))
       ELSE Goto(t, "validate", NoExc)
    /\ UNCHANGED <<shared, favVars, mapping, userVars, appVars>>

\* success = self.validate_location_name(location)
RaceValidate(t) ==
    /\ threads[t].pc = "validate"
    /\ \E answer \in AppAnswers :
          LET v == validate_location_name(shared, threads[t].location, answer)
          IN IF v.raised # NoExc
             THEN Goto(t, "done", v.raised)
             ELSE IF v.ret.bool
             THEN Goto(t, "append", NoExc)
             ELSE Goto(t, "done", NoExc)
    /\ UNCHANGED <<shared, favVars, mapping, userVars, appVars>>

\* self.favourites.append(location)
RaceAppend(t) ==
    /\ threads[t].pc = "append"
    /\ shared' = ListAppend(shared, threads[t].location)
    /\ Goto(t, "done", NoExc)
    /\ UNCHANGED <<favVars, mapping, userVars, appVars>>

\* the call has returned or raised; the thread serves the next request
RaceReturn(t) ==
    /\ threads[t].pc = "done"
    /\ threads' = [threads EXCEPT ![t] = Idle]
    /\ UNCHANGED <<shared, favVars, mapping, userVars, appVars>>

NextRace ==
    \/ \E t \in Threads : RaceCall(t)
    \/ \E t \in Threads : RaceCheck(t)
    \/ \E t \in Threads : RaceValidate(t)
    \/ \E t \in Threads : RaceAppend(t)
    \/ \E t \in Threads : RaceReturn(t)

SpecRace == Init /\ [][NextRace]_vars

\* C30: when two set_favourite_location calls for the same location on the
\* same model have both completed, however their steps interleaved, the
\* location occurs at most once in the list.
C30_NoDuplicateAfterRace ==
    \A l \in RaceLocations :
        (\A t \in Threads : threads[t].pc = "done" /\ threads[t].location = l)
            => Count(l, shared) <= 1

====
